---- MODULE Spec2Model ----
(***************************************************************************)
(* Model of the employee-excel-viewer session (src/src/App.js):            *)
(* the EmployeeDataVisualization component's state, the processFile        *)
(* pipeline (header lookup, record normalisation, per-manager fold), the   *)
(* three presence predicates, the re-export, and the view selection.       *)
(*                                                                         *)
(* JavaScript values are records [t, n, s]: t is the kind, n the integer   *)
(* payload of a number or boolean, s the characters of a string (a tuple   *)
(* of one-character strings, so that toLowerCase, trim and parseFloat are  *)
(* computed character by character).                                       *)
(***************************************************************************)
EXTENDS Integers, Sequences, FiniteSets, TLC

\* ------------------------------------------------------------------ bounds
MaxRows == 3
MaxStrLen == 3
MaxVariedRows == 2

\* ------------------------------------------------------- JavaScript values
Undefined == [t |-> "undefined", n |-> 0, s |-> <<>>]
Null == [t |-> "null", n |-> 0, s |-> <<>>]
NaN == [t |-> "nan", n |-> 0, s |-> <<>>]
DateObj == [t |-> "date", n |-> 0, s |-> <<>>]
Num(k) == [t |-> "number", n |-> k, s |-> <<>>]
Bool(b) == [t |-> "boolean", n |-> IF b THEN 1 ELSE 0, s |-> <<>>]
Str(cs) == [t |-> "string", n |-> 0, s |-> cs]

\* typeof v
TypeOf(v) ==
  CASE v.t = "nan" -> "number"
    [] v.t \in {"null", "date"} -> "object"
    [] OTHER -> v.t

\* ToBoolean(v): the test applied by  if (v)  and  !v
Truthy(v) ==
  CASE v.t = "boolean" -> v.n = 1
    [] v.t = "number" -> v.n # 0
    [] v.t = "string" -> Len(v.s) > 0
    [] v.t = "date" -> TRUE
    [] OTHER -> FALSE

\* ------------------------------------------------------------------ strings
UpperChars == <<"A","B","C","D","E","F","G","H","I","J","K","L","M",
                "N","O","P","Q","R","S","T","U","V","W","X","Y","Z">>
LowerChars == <<"a","b","c","d","e","f","g","h","i","j","k","l","m",
                "n","o","p","q","r","s","t","u","v","w","x","y","z">>
DigitChars == <<"0","1","2","3","4","5","6","7","8","9">>
WhiteSpace == {" ", "\t", "\n", "\r"}

LowerChar(c) ==
  IF \E i \in 1..26 : UpperChars[i] = c
  THEN LowerChars[CHOOSE i \in 1..26 : UpperChars[i] = c]
  ELSE c

\* String.prototype.toLowerCase
ToLowerCase(cs) == [i \in 1..Len(cs) |-> LowerChar(cs[i])]

RECURSIVE TrimStart(_)
TrimStart(cs) ==
  IF cs # <<>> /\ Head(cs) \in WhiteSpace THEN TrimStart(Tail(cs)) ELSE cs

RECURSIVE TrimEnd(_)
TrimEnd(cs) ==
  IF cs # <<>> /\ cs[Len(cs)] \in WhiteSpace
  THEN TrimEnd(SubSeq(cs, 1, Len(cs) - 1))
  ELSE cs

\* String.prototype.trim
Trim(cs) == TrimEnd(TrimStart(cs))

IsDigit(c) == \E i \in 1..10 : DigitChars[i] = c
DigitVal(c) == (CHOOSE i \in 1..10 : DigitChars[i] = c) - 1

RECURSIVE DigitPrefixLen(_)
DigitPrefixLen(cs) ==
  IF cs # <<>> /\ IsDigit(Head(cs)) THEN 1 + DigitPrefixLen(Tail(cs)) ELSE 0

RECURSIVE DigitsValue(_)
DigitsValue(cs) ==
  IF cs = <<>> THEN 0
  ELSE 10 * DigitsValue(SubSeq(cs, 1, Len(cs) - 1)) + DigitVal(cs[Len(cs)])

RECURSIVE NatToString(_)
NatToString(k) ==
  IF k < 10 THEN <<DigitChars[k + 1]>>
  ELSE Append(NatToString(k \div 10), DigitChars[(k % 10) + 1])

\* parseFloat(string) on strings of digits, letters, blanks and "%":
\* leading white space is skipped, the longest prefix that is a decimal
\* literal is converted, and a string with no such prefix gives NaN.
ParseFloat(cs) ==
  LET t == TrimStart(cs)
      k == DigitPrefixLen(t)
  IN IF k = 0 THEN NaN ELSE Num(DigitsValue(SubSeq(t, 1, k)))

\* the string literals of the source
sJa == <<"j","a">>
sYes == <<"y","e","s">>
sY == <<"y">>
sTrue == <<"t","r","u","e">>
sOne == <<"1">>
sNee == <<"n","e","e">>
sNo == <<"n","o">>
sN == <<"n">>
sFalse == <<"f","a","l","s","e">>
sZero == <<"0">>
sNaN == <<"N","a","N">>
sYesLabel == <<"Y","e","s">>
sNoLabel == <<"N","o">>
YesWords == {sJa, sYes, sY, sTrue, sOne}
NoWords == {sNee, sNo, sN, sFalse, sZero}

\* ------------------------------------------------- the presence predicates
\* the counting predicate with the .trim() left out
IsPresent_NoTrim(presentValue) ==
  IF presentValue.t # "undefined" /\ presentValue.t # "null"
  THEN CASE TypeOf(presentValue) = "boolean" -> presentValue.n = 1
         [] TypeOf(presentValue) = "number" ->
              ~(presentValue.t = "number" /\ presentValue.n = 0)
         [] TypeOf(presentValue) = "string" ->
              ToLowerCase(presentValue.s) \in YesWords
         [] OTHER -> FALSE
  ELSE FALSE

\* processFile, the isPresent computation of the fold (counting predicate)
IsPresent(presentValue) ==
  IF presentValue.t # "undefined" /\ presentValue.t # "null"
  THEN CASE TypeOf(presentValue) = "boolean" -> presentValue.n = 1
         [] TypeOf(presentValue) = "number" ->
              ~(presentValue.t = "number" /\ presentValue.n = 0)
         [] TypeOf(presentValue) = "string" ->
              Trim(ToLowerCase(presentValue.s)) \in YesWords
         [] OTHER -> FALSE
  ELSE FALSE

\* isPresentClassName (display-highlighting predicate): the row's class,
\* 'bg-red-200' for a non-participating row and '' otherwise
IsPresentClassName(present) ==
  IF \/ present.t = "undefined"
     \/ present.t = "null"
     \/ present = Bool(FALSE)
     \/ present = Num(0)
     \/ present = Str(<<>>)
     \/ /\ TypeOf(present) = "string"
        /\ \/ ToLowerCase(present.s) \in NoWords
           \/ ToLowerCase(present.s) \notin YesWords
  THEN "bg-red-200"
  ELSE ""

\* formatPresentDisplay (label of the employee table and of the export)
FormatPresentDisplay(present) ==
  LET normalized == Trim(ToLowerCase(present.s))
  IN IF TypeOf(present) = "string" /\ normalized \in YesWords THEN sYesLabel
     ELSE IF TypeOf(present) = "string" /\ normalized \in NoWords THEN sNoLabel
     ELSE IF present = Bool(TRUE) \/ present = Num(1) THEN sYesLabel ELSE sNoLabel

\* ------------------------------------------------------- header lookup
Leidinggevende == "Leidinggevende"
ParttimePct == "Parttime (%)"

\* headers.findIndex(h => h === a || h === b ...): the 0-based index of the
\* first header that is one of names, or -1
FindIndex(hs, names) ==
  IF \E i \in 1..Len(hs) : hs[i] \in names
  THEN (CHOOSE i \in 1..Len(hs) :
          hs[i] \in names /\ \A j \in 1..(i - 1) : hs[j] \notin names) - 1
  ELSE -1

\* the manager column taken at a fixed position instead of by its header
leidinggevendeIndex_FirstColumn(headers) ==
  IF \E i \in 1..Len(headers) : headers[i] = Leidinggevende THEN 0 ELSE -1

leidinggevendeIndex(headers) == FindIndex(headers, {Leidinggevende})
parttimeIndex(headers) == FindIndex(headers, {ParttimePct})
aanwezigIndex(headers) ==
  FindIndex(headers, {"Aanwezig", "Present", "Participation"})

\* the test of line 100 with && written for ||
RequiredColumnsMissing_BothOnly(headers) ==
  leidinggevendeIndex(headers) = -1 /\ parttimeIndex(headers) = -1

\* the test of line 100 that ends processing with the missing-columns error
RequiredColumnsMissing(headers) ==
  leidinggevendeIndex(headers) = -1 \/ parttimeIndex(headers) = -1

\* row[i] of a JavaScript array (0-based; outside the array: undefined)
Cell(row, i) == IF i >= 0 /\ i < Len(row) THEN row[i + 1] ELSE Undefined

\* ------------------------------------------------- record normalisation
\* the body of rows.map: one record per row.  The fields id, employmentType,
\* employeeType, startDate, endDate and employer are written here and read
\* nowhere in the component; the model keeps the fields that are read.
FormatRow(headers, row) ==
  LET raw == IF aanwezigIndex(headers) # -1
             THEN Cell(row, aanwezigIndex(headers)) ELSE Undefined
      presentValue == IF raw = Undefined THEN Str(sNee) ELSE raw
  IN [name |-> Cell(row, 1),
      function |-> Cell(row, 2),
      manager |-> Cell(row, leidinggevendeIndex(headers)),
      partTimePercentage |-> Cell(row, parttimeIndex(headers)),
      present |-> presentValue]

\* rows.map preceded by a filter that drops the rows without a manager
formattedData_SkipsNoManager(headers, rows) ==
  LET kept == SelectSeq(rows,
                LAMBDA row : Truthy(Cell(row, leidinggevendeIndex(headers))))
  IN [i \in 1..Len(kept) |-> FormatRow(headers, kept[i])]

formattedData(headers, rows) ==
  [i \in 1..Len(rows) |-> FormatRow(headers, rows[i])]

\* ---------------------------------------------- property keys of an object
sConstructor == <<"c","o","n","s","t","r","u","c","t","o","r">>
sToString == <<"t","o","S","t","r","i","n","g">>
sValueOf == <<"v","a","l","u","e","O","f">>
sProto == <<"_","_","p","r","o","t","o","_","_">>
sDateText == <<"[","D","a","t","e","]">>

\* names every object literal {} inherits from Object.prototype
ObjectPrototypeKeys == {sConstructor, sToString, sValueOf, sProto}

\* ToString(v) as used for property keys and for string concatenation
\* (a Date's text is kept opaque)
ToStringJS(v) ==
  CASE v.t = "string" -> v.s
    [] v.t = "number" -> NatToString(v.n)
    [] v.t = "boolean" -> IF v.n = 1 THEN sTrue ELSE sFalse
    [] v.t = "nan" -> sNaN
    [] v.t = "date" -> sDateText
    [] v.t = "null" -> <<"n","u","l","l">>
    [] OTHER -> <<"u","n","d","e","f","i","n","e","d">>

\* an integer-like key ("array index"): canonical decimal text of an integer
\* (keys of up to 9 digits; the limit 2^32 - 2 lies beyond the keys modelled)
IsArrayIndex(key) ==
  /\ key # <<>>
  /\ DigitPrefixLen(key) = Len(key)
  /\ (Len(key) > 1 => key[1] # "0")
  /\ Len(key) <= 9

\* managerStats is the sequence of its own entries in property order
\* (Object.keys / Object.entries): integer-like keys ascending, then the
\* other keys in insertion order.
OwnIndex(managerStats, key) ==
  IF \E i \in 1..Len(managerStats) : managerStats[i].key = key
  THEN CHOOSE i \in 1..Len(managerStats) : managerStats[i].key = key
  ELSE 0

\* managerStats[key] is truthy: an own entry, or a member of Object.prototype
HasTruthyProperty(managerStats, key) ==
  OwnIndex(managerStats, key) # 0 \/ key \in ObjectPrototypeKeys

InsertAt(seq, pos, e) ==
  SubSeq(seq, 1, pos - 1) \o <<e>> \o SubSeq(seq, pos, Len(seq))

\* managerStats[key] = {...} for a key that is not an own property yet
DefineProperty(managerStats, entry) ==
  IF IsArrayIndex(entry.key)
  THEN LET later == {i \in 1..Len(managerStats) :
                       \/ ~IsArrayIndex(managerStats[i].key)
                       \/ DigitsValue(managerStats[i].key) > DigitsValue(entry.key)}
           pos == IF later = {} THEN Len(managerStats) + 1
                  ELSE CHOOSE i \in later : \A j \in later : i <= j
       IN InsertAt(managerStats, pos, entry)
  ELSE Append(managerStats, entry)

\* ------------------------------------------------------------- arithmetic
\* ToNumber of a string: digits give their value, the empty string 0,
\* anything else NaN
ToNumber(v) ==
  CASE v.t = "number" -> v
    [] v.t = "boolean" -> Num(v.n)
    [] v.t = "string" ->
         IF DigitPrefixLen(Trim(v.s)) = Len(Trim(v.s))
         THEN Num(DigitsValue(Trim(v.s))) ELSE NaN
    [] v.t = "null" -> Num(0)
    [] OTHER -> NaN

\* a + b: concatenation when an operand is a string or an object,
\* numeric addition otherwise
Plus(a, b) ==
  IF a.t \in {"string", "date"} \/ b.t \in {"string", "date"}
  THEN Str(ToStringJS(a) \o ToStringJS(b))
  ELSE IF ToNumber(a).t = "nan" \/ ToNumber(b).t = "nan" THEN NaN
  ELSE Num(ToNumber(a).n + ToNumber(b).n)

\* toFixed(2) cutting the quotient off after two fraction digits
ToFixed2_Truncates(total, count) ==
  IF ToNumber(total).t = "nan" THEN sNaN
  ELSE LET h == (100 * ToNumber(total).n) \div count
       IN NatToString(h \div 100) \o <<".">> \o
          <<DigitChars[((h % 100) \div 10) + 1], DigitChars[(h % 10) + 1]>>

\* (total / count).toFixed(2) for total >= 0 and count >= 1: the decimal text
\* with two fraction digits nearest to the quotient, "NaN" for NaN.  With
\* count < 8 and an integer total the quotient is never halfway between two
\* such texts, so the nearest one is the same for the exact quotient and for
\* its double.
ToFixed2(total, count) ==
  IF ToNumber(total).t = "nan" THEN sNaN
  ELSE LET h == (200 * ToNumber(total).n + count) \div (2 * count)
       IN NatToString(h \div 100) \o <<".">> \o
          <<DigitChars[((h % 100) \div 10) + 1], DigitChars[(h % 10) + 1]>>

\* ------------------------------------------------------ per-manager fold
NewManagerEntry(key) ==
  [key |-> key, totalEmployees |-> 0, presentEmployees |-> 0,
   absentEmployees |-> 0, totalPartTimePercentage |-> Num(0),
   avgPartTimePercentage |-> Num(0)]

\* the fold with the else dropped: every record is also counted absent
CountEmployee_AlwaysAbsent(entry, employee) ==
  LET counted == [entry EXCEPT !.totalEmployees = @ + 1]
      classified == IF IsPresent(employee.present)
                    THEN [counted EXCEPT !.presentEmployees = @ + 1,
                                         !.absentEmployees = @ + 1]
                    ELSE [counted EXCEPT !.absentEmployees = @ + 1]
  IN IF Truthy(employee.partTimePercentage)
     THEN [classified EXCEPT !.totalPartTimePercentage =
             Plus(@, IF TypeOf(employee.partTimePercentage) = "string"
                     THEN ParseFloat(employee.partTimePercentage.s)
                     ELSE employee.partTimePercentage)]
     ELSE classified

\* the statements of lines 145-174 applied to the entry managerStats[key]
CountEmployee(entry, employee) ==
  LET counted == [entry EXCEPT !.totalEmployees = @ + 1]
      classified == IF IsPresent(employee.present)
                    THEN [counted EXCEPT !.presentEmployees = @ + 1]
                    ELSE [counted EXCEPT !.absentEmployees = @ + 1]
  IN IF Truthy(employee.partTimePercentage)
     THEN [classified EXCEPT !.totalPartTimePercentage =
             Plus(@, IF TypeOf(employee.partTimePercentage) = "string"
                     THEN ParseFloat(employee.partTimePercentage.s)
                     ELSE employee.partTimePercentage)]
     ELSE classified

\* one iteration of formattedData.forEach.  When managerStats[key] is an
\* inherited member of Object.prototype no entry is created and the counters
\* are written to that member, not to managerStats.
FoldEmployee(managerStats, employee) ==
  IF Truthy(employee.manager)
  THEN LET key == ToStringJS(employee.manager)
           ms == IF ~HasTruthyProperty(managerStats, key)
                 THEN DefineProperty(managerStats, NewManagerEntry(key))
                 ELSE managerStats
           i == OwnIndex(ms, key)
       IN IF i # 0
          THEN [ms EXCEPT ![i] = CountEmployee(ms[i], employee)]
          ELSE ms
  ELSE managerStats

RECURSIVE FoldAll(_, _)
FoldAll(managerStats, employees) ==
  IF employees = <<>> THEN managerStats
  ELSE CHOOSE r \in {FoldAll(ms, Tail(employees)) :
                       ms \in {FoldEmployee(managerStats, Head(employees))}} : TRUE

\* Object.keys(managerStats).forEach: the averages, after the fold
CalculateAverages(managerStats) ==
  [i \in 1..Len(managerStats) |->
     [managerStats[i] EXCEPT !.avgPartTimePercentage =
        Str(ToFixed2(managerStats[i].totalPartTimePercentage,
                     managerStats[i].totalEmployees))]]

\* formattedData and managerStats are each computed once, as the const and
\* the accumulator of the code are: es and ms stand for their values
managerStatsOf(employees) ==
  CHOOSE r \in {CalculateAverages(ms) :
                  ms \in {FoldAll(<<>>, es) : es \in {employees}}} : TRUE

\* ------------------------------------------------------------- the session
\* The component's dragActive and showSampleData flags only restyle the drop
\* zone and fold the sample table; they are read by no handler and are left
\* out.  pending holds the files whose FileReader has not fired yet and
\* downloaded the last workbook written by the download.
VARIABLES file, fileStructure, data, stats, loading, activeTab, error,
          pending, downloaded,
          probe, counted, label, className

sessionVars == <<file, fileStructure, data, stats, loading, activeTab, error,
                 pending, downloaded>>
probeVars == <<probe, counted, label, className>>
vars == <<file, fileStructure, data, stats, loading, activeTab, error,
          pending, downloaded, probe, counted, label, className>>

\* error messages set by processFile; NoError is the null of useState(null)
NoError == "null"
ErrMissingColumns ==
  "Required columns missing. Please check that your file has \"Leidinggevende\" and \"Parttime (%)\" columns."
ErrDecode == "Failed to process the Excel file. Please check the format."
ErrRead == "Error reading file."

\* a File: kind says what the FileReader and XLSX.read make of its bytes
\* ("unreadable": the reader fires onerror; "corrupt": XLSX.read throws;
\* "workbook": the first sheet decodes to a header row and data rows)
NoFile == [kind |-> "none", headers |-> <<>>, rows |-> <<>>]
NoStructure == [loaded |-> FALSE, headers |-> <<>>, sampleRows |-> <<>>]
NoWorkbook == [written |-> FALSE,
               employees |-> [headers |-> <<>>, rows |-> <<>>],
               statistics |-> [headers |-> <<>>, rows |-> <<>>]]

Min(a, b) == IF a < b THEN a ELSE b

\* setFileStructure({...}): headers and jsonData.slice(1, Math.min(5, length))
FileStructureOf(f) ==
  [loaded |-> TRUE, headers |-> f.headers,
   sampleRows |-> SubSeq(f.rows, 1, Min(4, Len(f.rows)))]

\* which branch of the component's return is rendered
View ==
  IF loading THEN "loading"
  ELSE IF error # NoError THEN "error"
  ELSE IF fileStructure.loaded /\ Len(data) > 0 THEN "tabs"
  ELSE IF fileStructure.loaded THEN "structure"
  ELSE "upload"

\* reader.onload without the setStats call
OnLoadResult_StatsNotStored(f, cur) ==
  IF f.kind = "corrupt"
  THEN [cur EXCEPT !.error = ErrDecode]
  ELSE IF RequiredColumnsMissing(f.headers)
  THEN [cur EXCEPT !.fileStructure = FileStructureOf(f),
                   !.error = ErrMissingColumns]
  ELSE [cur EXCEPT !.fileStructure = FileStructureOf(f),
                   !.data = formattedData(f.headers, f.rows),
                   !.activeTab = "structure"]

\* reader.onload for file f, as the state it leaves, given the state cur
\* it starts from
OnLoadResult(f, cur) ==
  IF f.kind = "corrupt"
  THEN [cur EXCEPT !.error = ErrDecode]
  ELSE IF RequiredColumnsMissing(f.headers)
  THEN [cur EXCEPT !.fileStructure = FileStructureOf(f),
                   !.error = ErrMissingColumns]
  ELSE [cur EXCEPT !.fileStructure = FileStructureOf(f),
                   !.data = formattedData(f.headers, f.rows),
                   !.stats = managerStatsOf(formattedData(f.headers, f.rows)),
                   !.activeTab = "structure"]

Current ==
  [fileStructure |-> fileStructure, data |-> data, stats |-> stats,
   activeTab |-> activeTab, error |-> error]

\* processFile without the setLoading(true) call
ProcessFile_LoadingNotSet(f) ==
  /\ error' = NoError
  /\ file' = f
  /\ pending' = Append(pending, f)
  /\ UNCHANGED <<loading, fileStructure, data, stats, activeTab, downloaded>>

\* processFile up to reader.readAsArrayBuffer(file)
ProcessFile(f) ==
  /\ loading' = TRUE
  /\ error' = NoError
  /\ file' = f
  /\ pending' = Append(pending, f)
  /\ UNCHANGED <<fileStructure, data, stats, activeTab, downloaded>>

\* -------------------------------------------------------------- re-export
\* XLSX.utils.aoa_to_sheet keeps booleans, numbers, strings and dates and
\* writes no cell for null or undefined
AoaCell(v) == IF v.t = "null" THEN Undefined ELSE v

ExportEmployees(employees) ==
  [headers |-> <<"Name", "Function", "PO", "Part-time %", "Present">>,
   rows |-> [i \in 1..Len(employees) |->
               <<AoaCell(employees[i].name),
                 AoaCell(employees[i].function),
                 AoaCell(employees[i].manager),
                 AoaCell(employees[i].partTimePercentage),
                 Str(FormatPresentDisplay(employees[i].present))>>]]

ExportStatistics(managerStats) ==
  [headers |-> <<"Product Owner", "Total Employees", "Present", "Absent",
                 "Avg. Part-time %">>,
   rows |-> [i \in 1..Len(managerStats) |->
               <<Str(managerStats[i].key),
                 Num(managerStats[i].totalEmployees),
                 Num(managerStats[i].presentEmployees),
                 Num(managerStats[i].absentEmployees),
                 managerStats[i].avgPartTimePercentage>>]]

\* the file employee_analysis.xlsx as XLSX.read decodes it again
WorkbookFile(wb) ==
  [kind |-> "workbook", headers |-> wb.employees.headers,
   rows |-> wb.employees.rows]

\* ------------------------------------------------------------------ inputs
sAlice == <<"A","l","i","c","e">>
sBob == <<"B","o","b">>
sTwo == <<"2">>
sYesUpperBlank == <<"Y","E","S"," ">>
sFifty == <<"5","0">>
sAbc == <<"a","b","c">>
sDev == <<"d","e","v">>

ManagerValues ==
  {Str(sAlice), Str(sBob), Str(sTwo), Num(2), Str(sConstructor),
   Str(<<>>), Undefined}
PercentageValues == {Num(50), Num(100), Num(0), Str(sFifty), Str(sAbc)}
PresentValues == {Str(sJa), Str(sNee), Str(sYesUpperBlank), Num(2), Undefined}

Person(m, p, q) == [manager |-> m, pct |-> p, present |-> q]

\* the people a sheet can list: each column varied against a fixed rest
People ==
  {Person(m, Num(50), Str(sJa)) : m \in ManagerValues}
  \cup {Person(Str(sAlice), p, Str(sJa)) : p \in PercentageValues}
  \cup {Person(Str(sAlice), Num(100), q) : q \in PresentValues}
  \cup {Person(Str(sBob), Num(100), Str(sNee))}

\* the people listed by the sheets whose header row is not the usual one
FewPeople ==
  {Person(Str(sAlice), Num(50), Str(sJa)),
   Person(Str(sAlice), Num(100), Str(sNee)),
   Person(Str(sBob), Num(100), Str(sNee)),
   Person(Str(sTwo), Num(50), Undefined),
   Person(Str(sConstructor), Num(50), Undefined),
   Person(Undefined, Str(sAbc), Str(sJa))}

TwoPeople ==
  {Person(Str(sAlice), Num(50), Str(sJa)),
   Person(Str(sBob), Num(100), Str(sNee))}

UsualHeaders ==
  <<"ID", "Naam", "Functie", "Leidinggevende", "Parttime (%)", "Aanwezig">>

OtherHeaderRows ==
  {<<"ID", "Naam", "Functie", "Leidinggevende", "Parttime (%)">>,
   <<"Parttime (%)", "Aanwezig", "Leidinggevende", "Naam">>,
   <<"ID", "Naam", "Leidinggevende", "Parttime (%)", "Present", "Aanwezig">>,
   <<"ID", "Naam", "Functie", "Parttime (%)", "Aanwezig">>,
   <<"ID", "Naam", "Functie", "Leidinggevende", "Aanwezig">>,
   <<"Name", "Function", "PO", "Part-time %", "Present">>}

\* the six orders of the three columns the normaliser looks up by name
PermutedHeaderRows ==
  {h \in [1..3 -> {"Leidinggevende", "Parttime (%)", "Aanwezig"}] :
     \A i, j \in 1..3 : i # j => h[i] # h[j]}

\* the cells of one person's row under the given header row; a second
\* participation column ("Present" next to "Aanwezig") carries the
\* opposite answer
RowOf(headers, e) ==
  [i \in 1..Len(headers) |->
     CASE headers[i] \in {"Leidinggevende", "PO"} -> e.manager
       [] headers[i] \in {"Parttime (%)", "Part-time %"} -> e.pct
       [] headers[i] = "Aanwezig" -> e.present
       [] headers[i] = "Present" ->
            IF \E j \in 1..Len(headers) : headers[j] = "Aanwezig"
            THEN (IF e.present = Str(sJa) THEN Str(sNee) ELSE Str(sJa))
            ELSE e.present
       [] headers[i] = "ID" -> Num(i)
       [] OTHER -> Str(sDev)]

Lists(S) == UNION {[1..n -> S] : n \in 0..MaxRows}

\* the sheets that vary every column hold up to MaxVariedRows rows
VariedLists(S) == UNION {[1..n -> S] : n \in 0..MaxVariedRows}

Workbook(h, es) ==
  [kind |-> "workbook", headers |-> h,
   rows |-> [i \in 1..Len(es) |-> RowOf(h, es[i])]]

Files ==
  {[kind |-> "unreadable", headers |-> <<>>, rows |-> <<>>],
   [kind |-> "corrupt", headers |-> <<>>, rows |-> <<>>]}
  \cup {Workbook(UsualHeaders, es) :
          es \in VariedLists(People)
                   \cup Lists(FewPeople \cup {Person(Str(sAlice), Num(100), Num(2))})}
  \cup {Workbook(h, es) : h \in OtherHeaderRows, es \in Lists(FewPeople)}
  \cup {Workbook(h, es) : h \in PermutedHeaderRows, es \in Lists(TwoPeople)}

\* the short list of files of the specification in which the reader fires
FilesOfEachKind ==
  {[kind |-> "unreadable", headers |-> <<>>, rows |-> <<>>],
   [kind |-> "corrupt", headers |-> <<>>, rows |-> <<>>]}
  \cup {Workbook(h, es) :
          h \in {UsualHeaders,
                 <<"ID", "Naam", "Functie", "Parttime (%)", "Aanwezig">>},
          es \in Lists(TwoPeople)}

\* ------------------------------------------------------------------ actions
TabNames == {"structure", "employees", "statistics", "deploy"}

Remove(seq, i) == SubSeq(seq, 1, i - 1) \o SubSeq(seq, i + 1, Len(seq))

Init ==
  /\ file = NoFile
  /\ fileStructure = NoStructure
  /\ data = <<>>
  /\ stats = <<>>
  /\ loading = FALSE
  /\ activeTab = "upload"
  /\ error = NoError
  /\ pending = <<>>
  /\ downloaded = NoWorkbook
  /\ probe = Undefined
  /\ counted = "unset"
  /\ label = <<>>
  /\ className = "unset"

\* handleDrop: a drop of a file f on the drop zone of the upload view
HandleDrop ==
  /\ View = "upload"
  /\ \E f \in Files : ProcessFile(f)
  /\ UNCHANGED probeVars

\* handleChange: a file f chosen with the Browse Files input of the upload view
HandleChange ==
  /\ View = "upload"
  /\ \E f \in Files : ProcessFile(f)
  /\ UNCHANGED probeVars

\* reader.onload: decoding, sniffing, normalisation and aggregation
ReaderOnLoad ==
  \E i \in 1..Len(pending) :
    /\ pending[i].kind \in {"corrupt", "workbook"}
    /\ LET r == OnLoadResult(pending[i], Current)
       IN /\ fileStructure' = r.fileStructure
          /\ data' = r.data
          /\ stats' = r.stats
          /\ activeTab' = r.activeTab
          /\ error' = r.error
    /\ loading' = FALSE
    /\ pending' = Remove(pending, i)
    /\ UNCHANGED <<file, downloaded>>
    /\ UNCHANGED probeVars

\* reader.onerror without the setLoading(false) call
ReaderOnError_StaysLoading ==
  \E i \in 1..Len(pending) :
    /\ pending[i].kind = "unreadable"
    /\ error' = ErrRead
    /\ pending' = Remove(pending, i)
    /\ UNCHANGED <<loading, file, fileStructure, data, stats, activeTab,
                   downloaded>>
    /\ UNCHANGED probeVars

\* reader.onerror: the bytes could not be read
ReaderOnError ==
  \E i \in 1..Len(pending) :
    /\ pending[i].kind = "unreadable"
    /\ error' = ErrRead
    /\ loading' = FALSE
    /\ pending' = Remove(pending, i)
    /\ UNCHANGED <<file, fileStructure, data, stats, activeTab, downloaded>>
    /\ UNCHANGED probeVars

\* a Try Again button that leaves the file structure in place
TryAgain_KeepsFileStructure ==
  /\ View = "error"
  /\ error' = NoError
  /\ activeTab' = "upload"
  /\ file' = NoFile
  /\ data' = <<>>
  /\ stats' = <<>>
  /\ UNCHANGED <<fileStructure, loading, pending, downloaded>>
  /\ UNCHANGED probeVars

\* the Try Again button of the error view
TryAgain ==
  /\ View = "error"
  /\ error' = NoError
  /\ activeTab' = "upload"
  /\ file' = NoFile
  /\ fileStructure' = NoStructure
  /\ data' = <<>>
  /\ stats' = <<>>
  /\ UNCHANGED <<loading, pending, downloaded>>
  /\ UNCHANGED probeVars

\* the four tab buttons of the results view
SetActiveTab(t) ==
  /\ View = "tabs"
  /\ activeTab' = t
  /\ UNCHANGED <<file, fileStructure, data, stats, loading, error, pending,
                 downloaded>>
  /\ UNCHANGED probeVars

\* the Continue to Analysis button of renderFileStructure
ContinueToAnalysis ==
  /\ \/ View = "structure"
     \/ View = "tabs" /\ activeTab = "structure"
  /\ activeTab' = "employees"
  /\ UNCHANGED <<file, fileStructure, data, stats, loading, error, pending,
                 downloaded>>
  /\ UNCHANGED probeVars

\* downloadExcelWithHighlighting, the Download Excel button of the employees
\* and statistics tabs
DownloadExcelWithHighlighting ==
  /\ View = "tabs"
  /\ activeTab \in {"employees", "statistics"}
  /\ Len(data) # 0
  /\ downloaded' = [written |-> TRUE,
                    employees |-> ExportEmployees(data),
                    statistics |-> ExportStatistics(stats)]
  /\ UNCHANGED <<file, fileStructure, data, stats, loading, activeTab, error,
                 pending>>
  /\ UNCHANGED probeVars

Next ==
  \/ HandleDrop
  \/ HandleChange
  \/ ReaderOnLoad
  \/ ReaderOnError
  \/ TryAgain
  \/ \E t \in TabNames : SetActiveTab(t)
  \/ ContinueToAnalysis
  \/ DownloadExcelWithHighlighting

Spec == Init /\ [][Next]_vars

\* ------------------------------------------------- the reader always fires
\* A FileReader given a file fires onload or onerror, once.  How a decode
\* ends depends on the kind of the file and on its header row, not on what
\* its rows say, so this specification uploads from a short list of files:
\* each kind, with and without the required headers, with 0..MaxRows rows.

\* handleDrop with a file of FilesOfEachKind
HandleDropOfEachKind ==
  /\ View = "upload"
  /\ \E f \in FilesOfEachKind : ProcessFile(f)
  /\ UNCHANGED probeVars

\* handleChange with a file of FilesOfEachKind
HandleChangeOfEachKind ==
  /\ View = "upload"
  /\ \E f \in FilesOfEachKind : ProcessFile(f)
  /\ UNCHANGED probeVars

NextReaderFires ==
  \/ HandleDropOfEachKind
  \/ HandleChangeOfEachKind
  \/ ReaderOnLoad
  \/ ReaderOnError
  \/ TryAgain
  \/ \E t \in TabNames : SetActiveTab(t)
  \/ ContinueToAnalysis
  \/ DownloadExcelWithHighlighting

SpecReaderFires ==
  /\ Init
  /\ [][NextReaderFires]_vars
  /\ WF_vars(ReaderOnLoad)
  /\ WF_vars(ReaderOnError)

\* ------------------------------------------- the predicates on their own
\* A second specification applies the three presence predicates to one
\* value of a record's present field.
ProbeAlphabet == {"j", "a", "A", "y", "1", "0", "n", " "}

ProbeStrings ==
  UNION {[1..k -> ProbeAlphabet] : k \in 0..MaxStrLen}
  \cup {sYes, sYesUpperBlank, sTrue, <<"T","R","U","E">>,
        <<" ","t","r","u","e","\t">>, sNee, sNo, sFalse,
        <<"m","a","y","b","e">>, <<"J","a","\n">>}

ProbeValues ==
  {Str(cs) : cs \in ProbeStrings}
  \cup {Num(k) : k \in {0, 1, 2, 50, 100}}
  \cup {Bool(TRUE), Bool(FALSE), Undefined, Null, DateObj}

InitValues ==
  /\ file = NoFile
  /\ fileStructure = NoStructure
  /\ data = <<>>
  /\ stats = <<>>
  /\ loading = FALSE
  /\ activeTab = "upload"
  /\ error = NoError
  /\ pending = <<>>
  /\ downloaded = NoWorkbook
  /\ probe \in ProbeValues
  /\ counted = "unset"
  /\ label = <<>>
  /\ className = "unset"

\* the fold's classification of the value
ApplyIsPresent ==
  /\ counted = "unset"
  /\ counted' = IF IsPresent(probe) THEN "present" ELSE "absent"
  /\ UNCHANGED <<probe, label, className>>
  /\ UNCHANGED sessionVars

\* the label of the employee table and of the exported sheet
ApplyFormatPresentDisplay ==
  /\ label = <<>>
  /\ label' = FormatPresentDisplay(probe)
  /\ UNCHANGED <<probe, counted, className>>
  /\ UNCHANGED sessionVars

\* the class of the row in the employee table
ApplyIsPresentClassName ==
  /\ className = "unset"
  /\ className' = IsPresentClassName(probe)
  /\ UNCHANGED <<probe, counted, label>>
  /\ UNCHANGED sessionVars

NextValues ==
  \/ ApplyIsPresent
  \/ ApplyFormatPresentDisplay
  \/ ApplyIsPresentClassName

SpecValues == InitValues /\ [][NextValues]_vars

\* ------------------------------------------------------------------ claims
HasHeader(headers, name) == \E i \in 1..Len(headers) : headers[i] = name

HasRequiredHeaders(headers) ==
  HasHeader(headers, "Leidinggevende") /\ HasHeader(headers, "Parttime (%)")

\* the upload of file has been processed: its reader has fired
Processed == ~loading /\ file.kind = "workbook"

\* C1: once an upload whose header row lacks "Leidinggevende" or lacks
\* "Parttime (%)" has been processed, the session is in the missing-columns
\* error state and holds no employee record and no manager stats.
C1_MissingColumnsLeavesNothing ==
  (Processed /\ ~HasRequiredHeaders(file.headers))
    => (error = ErrMissingColumns /\ data = <<>> /\ stats = <<>>)

C1_Witness ==
  /\ Processed
  /\ HasHeader(file.headers, "Parttime (%)")
  /\ ~HasHeader(file.headers, "Leidinggevende")
  /\ Len(file.rows) = 2
  /\ error = ErrMissingColumns

\* C2: once an upload whose header row contains both required headers has
\* been processed, the missing-columns error is not set and there is exactly
\* one employee record per data row, whatever the rows contain.
C2_OneRecordPerRow ==
  (Processed /\ HasRequiredHeaders(file.headers))
    => (error # ErrMissingColumns /\ Len(data) = Len(file.rows))

C2_Witness ==
  /\ Processed
  /\ HasRequiredHeaders(file.headers)
  /\ Len(file.rows) = 2
  /\ Len(data) = 2
  /\ \E i \in 1..2 : data[i].manager = Undefined
  /\ \E i \in 1..2 : data[i].present = Str(sNee) /\ data[i].manager = Str(sBob)

\* C3: in every manager group present + absent = total and the three
\* counters are non-negative integers.
C3_PresentPlusAbsentIsTotal ==
  \A i \in 1..Len(stats) :
    /\ stats[i].totalEmployees \in Nat
    /\ stats[i].presentEmployees \in Nat
    /\ stats[i].absentEmployees \in Nat
    /\ stats[i].presentEmployees + stats[i].absentEmployees
         = stats[i].totalEmployees

C3_Witness ==
  \E i \in 1..Len(stats) :
    /\ stats[i].presentEmployees >= 1
    /\ stats[i].absentEmployees >= 1
    /\ stats[i].totalEmployees = 3
    /\ \E j \in 1..Len(data) :
         data[j].present = Num(2) /\ data[j].manager = Str(stats[i].key)

\* the classification as the claim words it
ClassifyPresenceStated(v) ==
  \/ v = Bool(TRUE)
  \/ TypeOf(v) = "number" /\ v # Num(0)
  \/ /\ TypeOf(v) = "string"
     /\ \E w \in {sJa, sYes, sY, sTrue, sOne} : Trim(ToLowerCase(v.s)) = w

\* C4: the classification used for counting gives an answer for every value
\* and the answer is the stated one: true and nonzero numbers present, text
\* present iff trimmed and lower-cased it is ja, yes, y, true or 1, all else
\* absent.
C4_CountingMatchesStated ==
  /\ counted \in {"unset", "present", "absent"}
  /\ counted # "unset" => ((counted = "present") <=> ClassifyPresenceStated(probe))

C4_Witness ==
  /\ probe = Str(sYesUpperBlank)
  /\ counted = "present"

\* C5: for every value of the present field the label of the employee table
\* and of the exported sheet is "Yes" exactly when the fold counts the value
\* as present and "No" exactly when it counts it as absent.
C5_LabelMatchesCounting ==
  (counted # "unset" /\ label # <<>>)
    => /\ (label = sYesLabel) <=> (counted = "present")
       /\ (label = sNoLabel) <=> (counted = "absent")

\* C6: for every value of the present field the row is highlighted as
\* non-participating exactly when the fold counts the value as absent.
C6_HighlightMatchesCounting ==
  (counted # "unset" /\ className # "unset")
    => ((className = "bg-red-200") <=> (counted = "absent"))

\* the records the fold puts under the key of group i
GroupRecords(i) ==
  {j \in 1..Len(data) :
     Truthy(data[j].manager) /\ ToStringJS(data[j].manager) = stats[i].key}

\* a percentage as a number, a value that is no number counting as 0
PercentageOrZero(v) ==
  CASE v.t = "number" -> v.n
    [] v.t = "string" /\ ParseFloat(v.s).t = "number" -> ParseFloat(v.s).n
    [] OTHER -> 0

RECURSIVE SumPercentages(_)
SumPercentages(S) ==
  IF S = {} THEN 0
  ELSE LET j == CHOOSE k \in S : TRUE
       IN PercentageOrZero(data[j].partTimePercentage) + SumPercentages(S \ {j})

GroupSum(i) == SumPercentages(GroupRecords(i))

\* C7: a record whose percentage is not numeric adds 0 to its manager's
\* totalPartTimePercentage: the sum stays a number, equal to the sum with
\* that percentage taken as 0, and the average is a number as well.
C7_NonNumericPercentageAddsZero ==
  \A i \in 1..Len(stats) :
    /\ stats[i].totalPartTimePercentage = Num(GroupSum(i))
    /\ stats[i].avgPartTimePercentage # Str(sNaN)

\* the session a fresh page load starts from
FreshSession ==
  [fileStructure |-> NoStructure, data |-> <<>>, stats |-> <<>>,
   activeTab |-> "upload", error |-> NoError]

\* C8: uploading the workbook written by the download succeeds and gives
\* records whose manager and classified presence are those of the records
\* it was written from, record for record.
C8_ExportRoundTrips ==
  downloaded.written =>
    LET again == OnLoadResult(WorkbookFile(downloaded), FreshSession)
    IN /\ again.error = NoError
       /\ Len(again.data) = Len(data)
       /\ \A i \in 1..Len(data) :
            /\ again.data[i].manager = data[i].manager
            /\ IsPresent(again.data[i].present) = IsPresent(data[i].present)

\* the text cs is digits, a point and two digits
IsFixed2(cs) ==
  LET k == DigitPrefixLen(cs)
  IN /\ k >= 1
     /\ Len(cs) = k + 3
     /\ cs[k + 1] = "."
     /\ IsDigit(cs[k + 2]) /\ IsDigit(cs[k + 3])

\* the number of hundredths such a text denotes
Hundredths(cs) ==
  LET k == DigitPrefixLen(cs)
  IN 100 * DigitsValue(SubSeq(cs, 1, k)) + DigitsValue(SubSeq(cs, k + 2, k + 3))

Abs(x) == IF x < 0 THEN -x ELSE x

AllNumeric(i) ==
  \A j \in GroupRecords(i) : data[j].partTimePercentage.t = "number"

AliceScenario ==
  Workbook(UsualHeaders,
           <<Person(Str(sAlice), Num(50), Str(sJa)),
             Person(Str(sAlice), Num(100), Str(sNee))>>)

NonEmptyManager(v) == v \notin {Undefined, Null, Str(<<>>)}

WithManager == {j \in 1..Len(data) : NonEmptyManager(data[j].manager)}

RECURSIVE TotalEmployeesFrom(_)
TotalEmployeesFrom(i) ==
  IF i > Len(stats) THEN 0
  ELSE stats[i].totalEmployees + TotalEmployeesFrom(i + 1)

\* C10: every record with a non-empty manager is counted in exactly one
\* group, the one keyed by its manager; records without a manager are
\* counted in none; every group has totalEmployees >= 1; and the
\* totalEmployees of all groups add up to the number of records with a
\* non-empty manager.
C10_EveryManagedRecordInOneGroup ==
  /\ \A j \in WithManager :
       Cardinality({i \in 1..Len(stats) :
                      stats[i].key = ToStringJS(data[j].manager)}) = 1
  /\ \A i \in 1..Len(stats) :
       /\ stats[i].totalEmployees >= 1
       /\ stats[i].totalEmployees =
            Cardinality({j \in WithManager :
                           ToStringJS(data[j].manager) = stats[i].key})
  /\ TotalEmployeesFrom(1) = Cardinality(WithManager)

\* the data row in which the manager of group i is first seen
FirstSeen(i) == CHOOSE j \in GroupRecords(i) : \A k \in GroupRecords(i) : j <= k

\* C11: the manager groups are reported, in the statistics table and in the
\* exported Statistics sheet, in the order in which their managers are first
\* seen in the data rows, also when a manager looks like an integer.
C11_GroupsInFirstSeenOrder ==
  /\ \A i, k \in 1..Len(stats) : i < k => FirstSeen(i) < FirstSeen(k)
  /\ downloaded.written =>
       /\ Len(downloaded.statistics.rows) = Len(stats)
       /\ \A i \in 1..Len(stats) :
            downloaded.statistics.rows[i][1] = Str(stats[i].key)

ParticipationNames == <<"Aanwezig", "Present", "Participation">>

NamedColumns(headers, name) == {i \in 1..Len(headers) : headers[i] = name}

\* the leftmost column headed by the first of Aanwezig, Present,
\* Participation that the header row contains (0: none of them)
PriorityColumn(headers) ==
  IF \E p \in 1..3 : HasHeader(headers, ParticipationNames[p])
  THEN LET p == CHOOSE q \in 1..3 :
                  /\ HasHeader(headers, ParticipationNames[q])
                  /\ \A r \in 1..(q - 1) : ~HasHeader(headers, ParticipationNames[r])
           cols == NamedColumns(headers, ParticipationNames[p])
       IN CHOOSE i \in cols : \A j \in cols : i <= j
  ELSE 0

SeveralParticipationHeaders(headers) ==
  Cardinality({p \in 1..3 : HasHeader(headers, ParticipationNames[p])}) > 1

\* C12: when the header row has more than one of Aanwezig, Present,
\* Participation, each record's present value is the cell of the column
\* chosen by that priority ("nee" for an empty cell), wherever the columns
\* stand.
C12_ParticipationByPriority ==
  (Processed /\ HasRequiredHeaders(file.headers)
     /\ SeveralParticipationHeaders(file.headers))
    => \A i \in 1..Len(data) :
         LET cell == file.rows[i][PriorityColumn(file.headers)]
         IN data[i].present = (IF cell = Undefined THEN Str(sNee) ELSE cell)

ParticipationColumns(headers) ==
  {k \in 1..Len(headers) : \E p \in 1..3 : headers[k] = ParticipationNames[p]}

\* data row i has no value in a participation column: there is no such
\* column, or its cell is empty
NoParticipationValue(i) ==
  \A k \in ParticipationColumns(file.headers) : file.rows[i][k] = Undefined

\* C13: without a participation column every record's present field is
\* "nee"; a row with no participation value is classified absent and, when
\* it has a manager, is counted in that manager's absentEmployees and never
\* in its presentEmployees.
C13_NoValueCountsAbsent ==
  (Processed /\ HasRequiredHeaders(file.headers))
    => /\ ParticipationColumns(file.headers) = {}
            => \A i \in 1..Len(data) : data[i].present = Str(sNee)
       /\ \A i \in 1..Len(data) :
            NoParticipationValue(i) =>
              /\ ~IsPresent(data[i].present)
              /\ NonEmptyManager(data[i].manager) =>
                   \E g \in 1..Len(stats) :
                     /\ stats[g].key = ToStringJS(data[i].manager)
                     /\ stats[g].absentEmployees >=
                          Cardinality({j \in GroupRecords(g) : NoParticipationValue(j)})
                     /\ stats[g].presentEmployees <=
                          Cardinality({j \in GroupRecords(g) : ~NoParticipationValue(j)})

\* record i with its manager and percentage read from the columns that
\* carry the two required headers, wherever they sit
ByName(i) ==
  LET m == CHOOSE k \in NamedColumns(file.headers, Leidinggevende) : TRUE
      p == CHOOSE k \in NamedColumns(file.headers, ParttimePct) : TRUE
  IN [data[i] EXCEPT !.manager = file.rows[i][m],
                     !.partTimePercentage = file.rows[i][p]]

\* C14: whatever the order of the header columns, each record's manager and
\* partTimePercentage are the cells under "Leidinggevende" and
\* "Parttime (%)", and the statistics are those of the records read by name.
C14_RequiredColumnsByName ==
  (Processed /\ HasRequiredHeaders(file.headers))
    => /\ \A i \in 1..Len(data) :
            /\ \A k \in NamedColumns(file.headers, Leidinggevende) :
                 data[i].manager = file.rows[i][k]
            /\ \A k \in NamedColumns(file.headers, ParttimePct) :
                 data[i].partTimePercentage = file.rows[i][k]
       /\ stats = managerStatsOf([i \in 1..Len(data) |-> ByName(i)])

C14_Witness ==
  /\ Processed
  /\ file.headers = <<"Aanwezig", "Parttime (%)", "Leidinggevende">>
  /\ Len(data) = 2
  /\ Len(stats) = 2

\* the session is back where it started
InitialSession ==
  /\ error = NoError
  /\ file = NoFile
  /\ fileStructure = NoStructure
  /\ data = <<>>
  /\ stats = <<>>
  /\ activeTab = "upload"

ErrorShown == error # NoError /\ ~loading

\* C15: while an error is set and no decode is in flight, no result view is
\* displayed, the reset is offered, and the only step the session can take
\* is that reset, which returns error, file, fileStructure, data, stats and
\* activeTab to their initial values.
C15_ErrorOffersOnlyReset ==
  /\ [](ErrorShown => (View = "error" /\ ENABLED TryAgain))
  /\ [][ErrorShown => InitialSession']_vars

C15_Witness ==
  /\ ErrorShown
  /\ error = ErrMissingColumns
  /\ fileStructure.loaded
  /\ file.kind = "workbook"

\* a step of the user interface that discards the results and shows the
\* upload view again
ResetToUpload == Next /\ InitialSession'

ResultsHeld == fileStructure.loaded /\ ~loading

\* C16: in every state that holds loaded results (a file structure, with or
\* without records) and has no decode in flight, the user interface offers
\* a reset that discards the results and returns to the upload state.
C16_ResultsOfferReset == ResultsHeld => ENABLED ResetToUpload

\* C17: whatever uploads and resets came before, the records and the
\* statistics held after a successful upload are those computed from the
\* uploaded file alone.
C17_ResultsFromLastFileOnly ==
  (Processed /\ error = NoError)
    => /\ data = formattedData(file.headers, file.rows)
       /\ stats = managerStatsOf(formattedData(file.headers, file.rows))
       /\ fileStructure = FileStructureOf(file)

C17_Witness ==
  /\ Processed
  /\ error = NoError
  /\ Len(data) = 3
  /\ Len(stats) = 2

\* C18: at most one decode is outstanding; loading is true exactly while a
\* decode is pending and the upload view is then not shown; an upload is
\* started only from the upload view and sets loading.
C18_OneDecodeAtATime ==
  /\ [](/\ Len(pending) <= 1
        /\ loading <=> pending # <<>>
        /\ loading => View = "loading")
  /\ [][Len(pending') > Len(pending)
          => (View = "upload" /\ loading' /\ View' = "loading")]_vars

C18_Witness ==
  /\ loading
  /\ Len(pending) = 1
  /\ pending[1].kind = "workbook"
  /\ View = "loading"

\* the two ways a decode can end
EndsInError ==
  /\ error # NoError
  /\ data = <<>>
  /\ stats = <<>>

EndsInResults ==
  /\ error = NoError
  /\ fileStructure.loaded
  /\ data = formattedData(file.headers, file.rows)
  /\ stats = managerStatsOf(data)
  /\ activeTab = "structure"

\* C19: every started upload eventually leaves the loading state, and the
\* step that leaves it ends either with an error set and no records or
\* statistics stored, or with no error, the records and statistics stored
\* and the structure tab active.
C19_UploadEndsOneOfTwoWays ==
  /\ loading ~> ~loading
  /\ [][(loading /\ ~loading') => (EndsInError' \/ EndsInResults')]_vars

C19_Witness ==
  /\ ~loading
  /\ file.kind = "workbook"
  /\ EndsInResults
  /\ Len(stats) >= 1

StatisticsViewable ==
  /\ fileStructure.loaded
  /\ Len(data) >= 1
  /\ error = NoError
  /\ ~loading

\* C20: whenever the statistics view can be displayed, the totalEmployees
\* of all groups add up to at least 1, so the Total row and the overall
\* percentages never divide by zero.
C20_TotalIsPositive == StatisticsViewable => TotalEmployeesFrom(1) >= 1

\* nonParticipatingCount: the records whose row the employees tab highlights
nonParticipatingCount ==
  Cardinality({j \in 1..Len(data) : IsPresentClassName(data[j].present) # ""})

\* the Absent cell of the Total row of the statistics table
RECURSIVE TotalAbsentFrom(_)
TotalAbsentFrom(i) ==
  IF i > Len(stats) THEN 0
  ELSE stats[i].absentEmployees + TotalAbsentFrom(i + 1)

\* C21: in every state with loaded results, the Non-Participating count of
\* the employees tab (the highlighted records) equals the Absent total of
\* the statistics tab (the sum of absentEmployees over the manager groups).
C21_NonParticipatingIsTotalAbsent ==
  (ResultsHeld /\ error = NoError) => nonParticipatingCount = TotalAbsentFrom(1)

====
